---- MODULE Spec2Model ----
(***************************************************************************)
(* A model of the URL shortener of src/main.py: the JSON backing file, the *)
(* four operations (shorten, expand, list, delete) and the command line    *)
(* that drives them.  Strings are sequences of one-character strings, so   *)
(* that the URL validator, the short-URL formatting (BASE_URL ++ code) and *)
(* the code extraction (parse_short_code) are computed, not assumed.       *)
(***************************************************************************)
EXTENDS Integers, Sequences, FiniteSets, TLC

VARIABLES
    file,     \* the backing file on disk (db_file)
    lastOp,   \* the last command run by main(): its arguments and its outcome
    procs     \* two shorten processes run side by side: for each, where it
              \* is in shorten_url, its arguments and its local variables

vars == <<file, lastOp, procs>>

-----------------------------------------------------------------------------
(* Bounds *)

\* the largest --length a caller passes; lengths range over -1..MaxLength
MaxLength == 1

-----------------------------------------------------------------------------
(* Characters and strings *)

\* string.ascii_letters
ascii_letters ==
    { "a","b","c","d","e","f","g","h","i","j","k","l","m",
      "n","o","p","q","r","s","t","u","v","w","x","y","z",
      "A","B","C","D","E","F","G","H","I","J","K","L","M",
      "N","O","P","Q","R","S","T","U","V","W","X","Y","Z" }

\* string.digits
digits == { "0","1","2","3","4","5","6","7","8","9" }

\* chars = string.ascii_letters + string.digits: the 62-symbol alphabet,
\* also the class [a-zA-Z0-9] of parse_short_code
chars == ascii_letters \cup digits

\* the symbols of chars that random.choice draws in the model
DrawnChars == { "a", "b" }

BASE_URL ==
    << "h","t","t","p",":","/","/","s","h","o","r","t",".","u","r","l","/" >>

Min(S) == CHOOSE x \in S : \A y \in S : x <= y

\* c in s
Contains(s, c) == \E i \in 1..Len(s) : s[i] = c

\* s.find(c), 1-based; 0 when absent
Find(s, c) ==
    IF Contains(s, c) THEN Min({ i \in 1..Len(s) : s[i] = c }) ELSE 0

\* all strings of exactly n characters over the set cs
RECURSIVE StringsOf(_, _)
StringsOf(cs, n) ==
    IF n <= 0 THEN { << >> }
    ELSE { <<c>> \o s : c \in cs, s \in StringsOf(cs, n - 1) }

-----------------------------------------------------------------------------
(* Validator *)

\* urllib.parse.urlparse as far as is_valid_url reads it: the scheme, the
\* netloc, and the ValueError of an unbalanced IPv6 bracket in the netloc
urlparse(url) ==
    LET colon     == Find(url, ":")
        hasScheme == /\ colon > 1
                     /\ url[1] \in ascii_letters
                     /\ \A j \in 1..(colon - 1) :
                            url[j] \in chars \cup { "+", "-", "." }
        scheme    == IF hasScheme THEN SubSeq(url, 1, colon - 1) ELSE << >>
        rest      == IF hasScheme THEN SubSeq(url, colon + 1, Len(url)) ELSE url
        hasNetloc == Len(rest) >= 2 /\ rest[1] = "/" /\ rest[2] = "/"
        after     == IF hasNetloc THEN SubSeq(rest, 3, Len(rest)) ELSE << >>
        stops     == { i \in 1..Len(after) : after[i] \in { "/", "?", "#" } }
        stop      == IF stops = {} THEN Len(after) + 1 ELSE Min(stops)
        netloc    == SubSeq(after, 1, stop - 1)
    IN  [ error  |-> Contains(netloc, "[") # Contains(netloc, "]"),
          scheme |-> scheme,
          netloc |-> netloc ]

\* is_valid_url that asks for a scheme alone
is_valid_url_scheme_only(url) ==
    LET result == urlparse(url)
    IN  IF result.error THEN FALSE ELSE result.scheme # << >>

is_valid_url(url) ==
    LET result == urlparse(url)
    IN  IF result.error THEN FALSE
        ELSE result.scheme # << >> /\ result.netloc # << >>

-----------------------------------------------------------------------------
(* Code generator *)

\* the strings random.choice can build: range(length) is empty for
\* length <= 0, and the join of nothing is the empty string
\* generate_short_code with range(length + 1)
generate_short_code_one_more(length) == StringsOf(DrawnChars, length + 1)

generate_short_code(length) == StringsOf(DrawnChars, length)

-----------------------------------------------------------------------------
(* Dictionaries: Python dicts keep insertion order, so a dict is a sequence *)
(* of <<key, value>> pairs with distinct keys.                              *)

DictKeys(d) == { d[i][1] : i \in 1..Len(d) }

DictHas(d, k) == k \in DictKeys(d)

DictGet(d, k) == d[CHOOSE i \in 1..Len(d) : d[i][1] = k][2]

\* d[k] = v: a new key goes to the end, an existing key keeps its place
DictSet(d, k, v) ==
    IF DictHas(d, k)
    THEN [ i \in 1..Len(d) |-> IF d[i][1] = k THEN <<k, v>> ELSE d[i] ]
    ELSE Append(d, <<k, v>>)

\* del d[k]
DictDel(d, k) == SelectSeq(d, LAMBDA p : p[1] # k)

-----------------------------------------------------------------------------
(* Store and persistence *)

\* {"urls": {}, "reverse": {}}
EmptyDb ==
    [ hasUrls |-> TRUE, hasReverse |-> TRUE, urls |-> << >>, reverse |-> << >> ]

\* a JSON value that has neither key (for example {} or [])
NoDb ==
    [ hasUrls |-> FALSE, hasReverse |-> FALSE, urls |-> << >>, reverse |-> << >> ]

\* os.path.exists(db_file) is false
AbsentFile == [ kind |-> "absent", raw |-> << >>, value |-> NoDb ]

\* a file json.load rejects with JSONDecodeError, holding the text raw
CorruptFile(raw) == [ kind |-> "corrupt", raw |-> raw, value |-> NoDb ]

\* a file json.load parses to the value v
JsonFile(v) == [ kind |-> "json", raw |-> << >>, value |-> v ]

load_database(f) ==
    IF f.kind = "json" THEN f.value ELSE EmptyDb

\* the diagnostic of line 36
LoadDiagnostic(f) == f.kind = "corrupt"

\* save_database that keeps the entries the file has and db lacks
save_database_merging(db, f) ==
    IF f.kind = "json"
    THEN JsonFile(
           [ db EXCEPT
               !.urls = f.value.urls
                   \o SelectSeq(db.urls, LAMBDA e : ~DictHas(f.value.urls, e[1])),
               !.reverse = f.value.reverse
                   \o SelectSeq(db.reverse,
                                LAMBDA e : ~DictHas(f.value.reverse, e[1])) ])
    ELSE JsonFile(db)

save_database(db, f) == JsonFile(db)

-----------------------------------------------------------------------------
(* Outcomes of an operation *)

None == [ kind |-> "None", val |-> << >> ]
True == [ kind |-> "True", val |-> << >> ]
False == [ kind |-> "False", val |-> << >> ]
Str(s) == [ kind |-> "str", val |-> s ]
\* an uncaught KeyError/TypeError: the process ends with a traceback
Raised == [ kind |-> "KeyError", val |-> << >> ]
\* the call never returns
NoReturn == [ kind |-> "NoReturn", val |-> << >> ]

Outcome(f, ret, msg, code, read, wrote, diag, rows) ==
    [ file |-> f, ret |-> ret, msg |-> msg, code |-> code, read |-> read,
      wrote |-> wrote, diag |-> diag, rows |-> rows ]

\* Python truthiness of custom_code: None and "" are both false
Truthy(custom_code) == custom_code.given /\ custom_code.val # << >>

-----------------------------------------------------------------------------
(* Operations layer *)

\* lines 61-72: the code a shorten call settles on.  A custom code in use is
\* refused; otherwise the custom code is taken verbatim; without one, the
\* retry loop ends with any generated code that is not a key of urls, and
\* never ends when there is none.
\* pick_short_code without the check of line 63
pick_short_code_custom_unchecked(db, length, custom_code) ==
    IF Truthy(custom_code)
    THEN [ inUse |-> FALSE, codes |-> { custom_code.val } ]
    ELSE [ inUse |-> FALSE,
           codes |-> { c \in generate_short_code(length) :
                           ~DictHas(db.urls, c) } ]

\* pick_short_code without the check of line 71
pick_short_code_no_retry(db, length, custom_code) ==
    IF Truthy(custom_code)
    THEN IF DictHas(db.urls, custom_code.val)
         THEN [ inUse |-> TRUE, codes |-> {} ]
         ELSE [ inUse |-> FALSE, codes |-> { custom_code.val } ]
    ELSE [ inUse |-> FALSE, codes |-> generate_short_code(length) ]

pick_short_code(db, length, custom_code) ==
    IF Truthy(custom_code)
    THEN IF DictHas(db.urls, custom_code.val)
         THEN [ inUse |-> TRUE, codes |-> {} ]
         ELSE [ inUse |-> FALSE, codes |-> { custom_code.val } ]
    ELSE [ inUse |-> FALSE,
           codes |-> { c \in generate_short_code(length) :
                           ~DictHas(db.urls, c) } ]

\* lines 56-57: the code long_url already has, when it is a key of reverse
\* lookup_existing without the check of line 56
lookup_existing_never(db, long_url) == [ found |-> FALSE, code |-> << >> ]

lookup_existing(db, long_url) ==
    IF DictHas(db.reverse, long_url)
    THEN [ found |-> TRUE, code |-> DictGet(db.reverse, long_url) ]
    ELSE [ found |-> FALSE, code |-> << >> ]

\* insert_entry without line 76
insert_entry_forward_only(db, short_code, long_url) ==
    [ db EXCEPT !.urls = DictSet(db.urls, short_code, long_url) ]

\* lines 74-76
insert_entry(db, short_code, long_url) ==
    [ db EXCEPT !.urls = DictSet(db.urls, short_code, long_url),
                !.reverse = DictSet(db.reverse, long_url, short_code) ]

\* shorten_url: the set of outcomes the call can have (one per code the
\* random generator can settle on)
shorten_url(f, long_url, length, custom_code) ==
    IF ~is_valid_url(long_url)
    THEN { Outcome(f, None, "InvalidURL", << >>, FALSE, FALSE, FALSE, << >>) }
    ELSE
    LET db   == load_database(f)
        diag == LoadDiagnostic(f)
    IN  IF ~db.hasReverse                                      \* line 56
        THEN { Outcome(f, Raised, "Traceback", << >>, TRUE, FALSE, diag, << >>) }
        ELSE IF lookup_existing(db, long_url).found
        THEN LET short_code == lookup_existing(db, long_url).code
             IN  { Outcome(f, Str(BASE_URL \o short_code), "AlreadyShortened",
                           short_code, TRUE, FALSE, diag, << >>) }
        ELSE IF ~db.hasUrls                                    \* lines 63, 71
        THEN { Outcome(f, Raised, "Traceback", << >>, TRUE, FALSE, diag, << >>) }
        ELSE
        LET pick == pick_short_code(db, length, custom_code)
        IN  IF pick.inUse
            THEN { Outcome(f, None, "CodeInUse", << >>, TRUE, FALSE, diag, << >>) }
            ELSE IF pick.codes = {}
            THEN { Outcome(f, NoReturn, "", << >>, TRUE, FALSE, diag, << >>) }
            ELSE { Outcome(save_database(insert_entry(db, short_code, long_url), f),
                           Str(BASE_URL \o short_code), "Shortened",
                           short_code, TRUE, TRUE, diag, << >>) :
                   short_code \in pick.codes }

\* expand_url that saves the store it loaded
expand_url_saves(f, short_code) ==
    LET db   == load_database(f)
        diag == LoadDiagnostic(f)
    IN  IF ~db.hasUrls
        THEN Outcome(f, Raised, "Traceback", short_code, TRUE, FALSE, diag, << >>)
        ELSE IF DictHas(db.urls, short_code)
        THEN Outcome(save_database(db, f), Str(DictGet(db.urls, short_code)),
                     "Original", short_code, TRUE, TRUE, diag, << >>)
        ELSE Outcome(save_database(db, f), None, "NotFound", short_code, TRUE,
                     TRUE, diag, << >>)

expand_url(f, short_code) ==
    LET db   == load_database(f)
        diag == LoadDiagnostic(f)
    IN  IF ~db.hasUrls
        THEN Outcome(f, Raised, "Traceback", short_code, TRUE, FALSE, diag, << >>)
        ELSE IF DictHas(db.urls, short_code)
        THEN Outcome(f, Str(DictGet(db.urls, short_code)), "Original",
                     short_code, TRUE, FALSE, diag, << >>)
        ELSE Outcome(f, None, "NotFound", short_code, TRUE, FALSE, diag, << >>)

\* lines 116-118: a URL of more than DisplayWidth characters is shown as
\* its first DisplayKept characters and "..."
DisplayWidth == 48
DisplayKept == 45

displayed_url(long_url) ==
    IF Len(long_url) > DisplayWidth
    THEN SubSeq(long_url, 1, DisplayKept) \o << ".", ".", "." >>
    ELSE long_url

\* list_urls with the rows in the opposite order
list_urls_reversed(f) ==
    LET db == load_database(f)
        n  == Len(db.urls)
    IN  Outcome(f, None, IF n = 0 THEN "NoURLs" ELSE "Table", << >>, TRUE,
                FALSE, LoadDiagnostic(f),
                [ i \in 1..n |->
                    << BASE_URL \o db.urls[n + 1 - i][1],
                       displayed_url(db.urls[n + 1 - i][2]) >> ])

\* list_urls prints one row per item of db["urls"], in the dict's order: the
\* short URL and the displayed URL (the padding of the two columns, which
\* only adds spaces, is left out)
list_urls(f) ==
    LET db   == load_database(f)
        diag == LoadDiagnostic(f)
    IN  IF ~db.hasUrls
        THEN Outcome(f, Raised, "Traceback", << >>, TRUE, FALSE, diag, << >>)
        ELSE IF db.urls = << >>
        THEN Outcome(f, None, "NoURLs", << >>, TRUE, FALSE, diag, << >>)
        ELSE Outcome(f, None, "Table", << >>, TRUE, FALSE, diag,
                     [ i \in 1..Len(db.urls) |->
                         << BASE_URL \o db.urls[i][1],
                            displayed_url(db.urls[i][2]) >> ])

\* delete_url with the save of line 139 moved out of the if
delete_url_always_saves(f, short_code) ==
    LET db   == load_database(f)
        diag == LoadDiagnostic(f)
    IN  IF db.hasUrls /\ DictHas(db.urls, short_code)
        THEN LET long_url == DictGet(db.urls, short_code)
                 db2 == [ db EXCEPT !.urls = DictDel(db.urls, short_code),
                                    !.reverse = DictDel(db.reverse, long_url) ]
             IN  Outcome(save_database(db2, f), True, "Deleted", short_code,
                         TRUE, TRUE, diag, << >>)
        ELSE Outcome(save_database(db, f), False, "NotFound", short_code,
                     TRUE, TRUE, diag, << >>)

\* delete_url without the save of line 139
delete_url_no_save(f, short_code) ==
    LET db   == load_database(f)
        diag == LoadDiagnostic(f)
    IN  IF db.hasUrls /\ DictHas(db.urls, short_code)
        THEN Outcome(f, True, "Deleted", short_code, TRUE, FALSE, diag, << >>)
        ELSE Outcome(f, False, "NotFound", short_code, TRUE, FALSE, diag, << >>)

\* delete_url without line 136
delete_url_keeps_reverse(f, short_code) ==
    LET db   == load_database(f)
        diag == LoadDiagnostic(f)
    IN  IF db.hasUrls /\ DictHas(db.urls, short_code)
        THEN Outcome(
               save_database([ db EXCEPT !.urls = DictDel(db.urls, short_code) ], f),
               True, "Deleted", short_code, TRUE, TRUE, diag, << >>)
        ELSE Outcome(f, False, "NotFound", short_code, TRUE, FALSE, diag, << >>)

delete_url(f, short_code) ==
    LET db   == load_database(f)
        diag == LoadDiagnostic(f)
    IN  IF ~db.hasUrls                                         \* line 131
        THEN Outcome(f, Raised, "Traceback", short_code, TRUE, FALSE, diag, << >>)
        ELSE IF DictHas(db.urls, short_code)
        THEN LET long_url == DictGet(db.urls, short_code)
             IN  IF ~db.hasReverse \/ ~DictHas(db.reverse, long_url)  \* line 136
                 THEN Outcome(f, Raised, "Traceback", short_code, TRUE, FALSE,
                              diag, << >>)
                 ELSE Outcome(
                        save_database(
                          [ db EXCEPT !.urls = DictDel(db.urls, short_code),
                                      !.reverse = DictDel(db.reverse, long_url) ],
                          f),
                        True, "Deleted", short_code, TRUE, TRUE, diag, << >>)
        ELSE Outcome(f, False, "NotFound", short_code, TRUE, FALSE, diag, << >>)

\* re.search(r'\/([a-zA-Z0-9]+)$', url): the leftmost "/" followed by one
\* or more characters of [a-zA-Z0-9] up to the end of the string, where $
\* also matches just before a final newline; without a match, url itself
IsEnd(url, j) == j = Len(url) + 1 \/ (j = Len(url) /\ url[j] = "\n")

MatchAt(url, i, j) ==
    /\ url[i] = "/"
    /\ j > i + 1
    /\ IsEnd(url, j)
    /\ \A k \in (i + 1)..(j - 1) : url[k] \in chars

parse_short_code(url) ==
    LET starts == { i \in 1..Len(url) :
                      \E j \in (i + 2)..(Len(url) + 1) : MatchAt(url, i, j) }
    IN  IF starts = {} THEN url
        ELSE LET i == Min(starts)
                 j == CHOOSE j \in (i + 2)..(Len(url) + 1) : MatchAt(url, i, j)
             IN  SubSeq(url, i + 1, j - 1)

-----------------------------------------------------------------------------
(* Inputs of the command line *)

\* URLs a caller passes to shorten: two valid ones, a short one and one of 49
\* characters (longer than list_urls displays in full), then one without
\* scheme and host, one without host, one without scheme, and one whose
\* netloc makes urlparse raise ValueError
UrlA == << "h", ":", "/", "/", "a" >>
UrlB == << "h", ":", "/", "/" >> \o [ i \in 1..45 |-> "b" ]
UrlNoSchemeNoHost == << "a" >>
UrlNoHost == << "h", ":", "a" >>
UrlNoScheme == << "/", "/", "a" >>
UrlBadBracket == << "h", ":", "/", "/", "[" >>

ValidUrls == { UrlA, UrlB }
InvalidUrls == { UrlNoSchemeNoHost, UrlNoHost, UrlNoScheme, UrlBadBracket }

\* --length
Lengths == (-1)..MaxLength

\* --custom: not given (None), given as "", or given as a code; custom codes
\* are arbitrary strings, so one has a "-" and one a "/"
NoCustom == [ given |-> FALSE, val |-> << >> ]
Custom(s) == [ given |-> TRUE, val |-> s ]
CodeA == << "a" >>
CodeDash == << "a", "-", "b" >>
CodeSlash == << "x", "/", "a" >>

Customs == { NoCustom, Custom(<< >>), Custom(CodeA), Custom(CodeDash),
             Custom(CodeSlash) }

\* the --length of the calls whose length plays no part (a custom code is
\* given, or the URL is invalid)
PassedLength == MaxLength

\* the shorten calls: every length without a custom code (not given, or given
\* as ""), every custom code at one length, and the invalid URLs with and
\* without a custom code
ShortenCalls ==
    [ url : ValidUrls, length : Lengths, custom : { NoCustom, Custom(<< >>) } ]
        \cup [ url : ValidUrls, length : { PassedLength },
               custom : Customs \ { NoCustom, Custom(<< >>) } ]
        \cup [ url : InvalidUrls, length : { PassedLength },
               custom : { NoCustom, Custom(CodeA) } ]

\* every code the model can store
Codes ==
    UNION { generate_short_code(l) : l \in Lengths }
        \cup { CodeA, CodeDash, CodeSlash }

\* the argument of expand and delete: a bare code or a full short URL
Args == Codes \cup { BASE_URL \o c : c \in Codes }

-----------------------------------------------------------------------------
(* The state machine: one action per command of main() *)

OpRecord(op, url, length, custom, arg, o) ==
    [ op |-> op, url |-> url, length |-> length, custom |-> custom,
      arg |-> arg, ret |-> o.ret, msg |-> o.msg, code |-> o.code,
      read |-> o.read, wrote |-> o.wrote, diag |-> o.diag, rows |-> o.rows ]

\* the two processes, and a process that has not started
Procs == { 1, 2 }

Idle ==
    [ pc |-> "idle", url |-> << >>, length |-> 0, custom |-> NoCustom,
      db |-> EmptyDb, code |-> << >>, ret |-> None, msg |-> "" ]

\* the files the program may find: absent, empty, unparseable text, and JSON
\* that lacks one or both of the keys "urls" and "reverse"
InitFiles ==
    { AbsentFile, CorruptFile(<< >>), CorruptFile(<< "{" >>),
      JsonFile(NoDb),
      JsonFile([ NoDb EXCEPT !.hasUrls = TRUE ]),
      JsonFile([ NoDb EXCEPT !.hasReverse = TRUE ]) }

Init ==
    /\ file \in InitFiles
    /\ lastOp = OpRecord("none", << >>, 0, NoCustom, << >>,
                         Outcome(file, None, "", << >>, FALSE, FALSE, FALSE, << >>))
    /\ procs = [ p \in Procs |-> Idle ]

\* main, command "shorten"
CmdShorten ==
    \E call \in ShortenCalls :
        \E o \in shorten_url(file, call.url, call.length, call.custom) :
            /\ file' = o.file
            /\ lastOp' = OpRecord("shorten", call.url, call.length, call.custom,
                                  << >>, o)
            /\ UNCHANGED procs

\* main, command "expand"
CmdExpand ==
    \E arg \in Args :
        LET o == expand_url(file, parse_short_code(arg))
        IN  /\ file' = o.file
            /\ lastOp' = OpRecord("expand", << >>, 0, NoCustom, arg, o)
            /\ UNCHANGED procs

\* main, command "list"
CmdList ==
    LET o == list_urls(file)
    IN  /\ file' = o.file
        /\ lastOp' = OpRecord("list", << >>, 0, NoCustom, << >>, o)
        /\ UNCHANGED procs

\* main, command "delete"
CmdDelete ==
    \E arg \in Args :
        LET o == delete_url(file, parse_short_code(arg))
        IN  /\ file' = o.file
            /\ lastOp' = OpRecord("delete", << >>, 0, NoCustom, arg, o)
            /\ UNCHANGED procs

\* main, no command: the usage help is printed
CmdHelp ==
    /\ file' = file
    /\ lastOp' = OpRecord("help", << >>, 0, NoCustom, << >>,
                          Outcome(file, None, "Usage", << >>, FALSE, FALSE,
                                  FALSE, << >>))
    /\ UNCHANGED procs

Next == CmdShorten \/ CmdExpand \/ CmdList \/ CmdDelete \/ CmdHelp

Spec == Init /\ [][Next]_vars

-----------------------------------------------------------------------------
(* Two shorten processes on one backing file.  Each runs shorten_url once,   *)
(* in three kinds of steps: the load (with the checks that follow it), one   *)
(* turn of the retry loop, and the insertion with the save.                  *)

\* the shorten calls of the two processes
ProcCalls ==
    [ url : ValidUrls \cup { UrlNoHost }, length : Lengths,
      custom : { NoCustom, Custom(CodeA) } ]

\* line 71 of a loop that leaves whatever code it drew
loop_exits_always(db, short_code) == TRUE

\* line 71: the loop is left when the code drawn is not a key of urls
loop_exits(db, short_code) == ~DictHas(db.urls, short_code)

Finish(p, call, db, ret, msg, code) ==
    procs' = [ procs EXCEPT ![p] =
                 [ pc |-> "done", url |-> call.url, length |-> call.length,
                   custom |-> call.custom, db |-> db, code |-> code,
                   ret |-> ret, msg |-> msg ] ]

Continue(p, call, db, pc, code) ==
    procs' = [ procs EXCEPT ![p] =
                 [ pc |-> pc, url |-> call.url, length |-> call.length,
                   custom |-> call.custom, db |-> db, code |-> code,
                   ret |-> None, msg |-> "" ] ]

\* lines 47-66: validate, load, answer a known URL, take or refuse the
\* custom code
PLoad(p) ==
    /\ procs[p].pc = "idle"
    /\ \E call \in ProcCalls :
          LET db == load_database(file)
          IN  IF ~is_valid_url(call.url)
              THEN Finish(p, call, EmptyDb, None, "InvalidURL", << >>)
              ELSE IF ~db.hasReverse
              THEN Finish(p, call, db, Raised, "Traceback", << >>)
              ELSE IF lookup_existing(db, call.url).found
              THEN LET short_code == lookup_existing(db, call.url).code
                   IN  Finish(p, call, db, Str(BASE_URL \o short_code),
                              "AlreadyShortened", short_code)
              ELSE IF ~db.hasUrls
              THEN Finish(p, call, db, Raised, "Traceback", << >>)
              ELSE IF Truthy(call.custom)
              THEN IF DictHas(db.urls, call.custom.val)
                   THEN Finish(p, call, db, None, "CodeInUse", << >>)
                   ELSE Continue(p, call, db, "save", call.custom.val)
              ELSE Continue(p, call, db, "loop", << >>)
    /\ UNCHANGED <<file, lastOp>>

\* lines 69-72: one turn of the loop, drawing short_code
PDrawCode(p, short_code) ==
    /\ procs[p].pc = "loop"
    /\ short_code \in generate_short_code(procs[p].length)
    /\ procs' = [ procs EXCEPT
                    ![p].code = short_code,
                    ![p].pc = IF loop_exits(procs[p].db, short_code)
                              THEN "save" ELSE "loop" ]
    /\ UNCHANGED <<file, lastOp>>

PDraw(p) == \E short_code \in Codes : PDrawCode(p, short_code)

\* the codes of the requested length that are not keys of the loaded urls
FreeCodes(p) ==
    { c \in generate_short_code(procs[p].length) :
        ~DictHas(procs[p].db.urls, c) }

\* a turn of the loop that draws a free code
PDrawFree(p) == \E short_code \in FreeCodes(p) : PDrawCode(p, short_code)

\* lines 74-84: insert, save, return the short URL
PSave(p) ==
    /\ procs[p].pc = "save"
    /\ LET db == insert_entry(procs[p].db, procs[p].code, procs[p].url)
       IN  /\ file' = save_database(db, file)
           /\ procs' = [ procs EXCEPT
                           ![p].db = db,
                           ![p].pc = "done",
                           ![p].ret = Str(BASE_URL \o procs[p].code),
                           ![p].msg = "Shortened" ]
    /\ UNCHANGED lastOp

ProcNext == \E p \in Procs : PLoad(p) \/ PDraw(p) \/ PSave(p)

\* a running process keeps running, and random.choice is fair: a loop that
\* can draw a free code does not draw taken ones forever
ProcSpec ==
    /\ Init
    /\ [][ProcNext]_vars
    /\ \A p \in Procs : WF_vars(PDrawFree(p)) /\ WF_vars(PSave(p))

-----------------------------------------------------------------------------
(* State functions used by the properties *)

\* the store the next operation loads
Store == load_database(file)

\* forward (urls) and reverse of that store
Forward == Store.urls
Reverse == Store.reverse

\* the file after the step, as the operation after it would load it
ForwardAfter == load_database(file').urls

ReverseAfter == load_database(file').reverse

\* the file parses to an object that has the urls mapping
HoldsStore(f) == f.kind = "json" /\ f.value.hasUrls

IsShortened(op) == op.op = "shorten" /\ op.msg = "Shortened"

-----------------------------------------------------------------------------
(* Properties *)

\* C1: after any sequence of shorten and delete commands, the persisted urls
\* and reverse maps are exact inverses: urls[c] = u if and only if
\* reverse[u] = c, and neither map has a repeated key.
C1_ForwardReverseInverse ==
    (Store.hasUrls /\ Store.hasReverse) =>
        /\ \A i \in 1..Len(Forward) :
              /\ DictHas(Reverse, Forward[i][2])
              /\ DictGet(Reverse, Forward[i][2]) = Forward[i][1]
        /\ \A i \in 1..Len(Reverse) :
              /\ DictHas(Forward, Reverse[i][2])
              /\ DictGet(Forward, Reverse[i][2]) = Reverse[i][1]
        /\ Cardinality(DictKeys(Forward)) = Len(Forward)
        /\ Cardinality(DictKeys(Reverse)) = Len(Reverse)

\* a delete that succeeded and left one of two entries behind
C1_Witness ==
    /\ lastOp.op = "delete"
    /\ lastOp.ret = True
    /\ file.kind = "json"
    /\ Len(Forward) = 1
    /\ Len(Reverse) = 1

\* C2: shorten of a valid URL without a custom code, followed by expand of
\* the short URL that shorten returned, returns the URL.  Stated for the
\* calls with a positive length that return a code that is not empty (an
\* empty code comes only from a length <= 0, which the code generator's
\* contract leaves open).
C2_CreateThenResolve ==
    [][ ( /\ lastOp.op = "shorten"
          /\ lastOp.custom = NoCustom
          /\ lastOp.length > 0
          /\ lastOp.ret.kind = "str"
          /\ lastOp.code # << >>
          /\ lastOp'.op = "expand"
          /\ lastOp'.arg = lastOp.ret.val )
        => lastOp'.ret = Str(lastOp.url) ]_vars

\* C3: a shorten call that follows a shorten call of the same URL that
\* returned a short URL returns the same short URL, whatever length and custom
\* code it passes, and leaves the backing file as it was.
C3_RepeatCreateSameCode ==
    [][ ( /\ lastOp.op = "shorten"
          /\ lastOp.ret.kind = "str"
          /\ lastOp'.op = "shorten"
          /\ lastOp'.url = lastOp.url )
        => /\ lastOp'.ret = lastOp.ret
           /\ lastOp'.code = lastOp.code
           /\ ~lastOp'.wrote
           /\ file' = file ]_vars

\* a repeated shorten that passed a custom code other than the stored one
C3_Witness ==
    /\ lastOp.op = "shorten"
    /\ lastOp.msg = "AlreadyShortened"
    /\ Truthy(lastOp.custom)
    /\ lastOp.custom.val # lastOp.code
    /\ Len(Forward) = 1

C5_InvalidUrlTouchesNothing ==
    [][ ( lastOp'.op = "shorten" /\ lastOp'.url \in InvalidUrls )
        => /\ lastOp'.ret = None
           /\ lastOp'.msg = "InvalidURL"
           /\ ~lastOp'.read
           /\ ~lastOp'.wrote
           /\ ~lastOp'.diag
           /\ file' = file ]_vars

\* an invalid URL (scheme but no host) refused while the file is corrupt
C5_Witness ==
    /\ lastOp.op = "shorten"
    /\ lastOp.url = UrlNoHost
    /\ lastOp.msg = "InvalidURL"
    /\ file.kind = "corrupt"

\* C6: after a successful delete of a code, expand of that code fails with
\* NotFound until a later shorten inserts the code again.  As a step
\* property: a delete that succeeds leaves a saved store without its code;
\* and while the file holds a store without a code, the file goes on holding
\* a store, expand of the code fails with NotFound, and the code comes back
\* only by a shorten that inserts it.
C6_RemovedStaysNotFound ==
    [][ \A c \in Codes :
          /\ ( lastOp'.op = "delete" /\ lastOp'.ret = True /\ lastOp'.code = c )
                => ( HoldsStore(file') /\ ~DictHas(ForwardAfter, c) )
          /\ ( HoldsStore(file) /\ ~DictHas(Forward, c) )
                => /\ HoldsStore(file')
                   /\ ( lastOp'.op = "expand" /\ lastOp'.code = c )
                         => ( lastOp'.ret = None /\ lastOp'.msg = "NotFound" )
                   /\ DictHas(ForwardAfter, c)
                         => ( IsShortened(lastOp') /\ lastOp'.code = c ) ]_vars

\* a delete, given a full short URL, that succeeded
C6_Witness ==
    /\ lastOp.op = "delete"
    /\ lastOp.ret = True
    /\ lastOp.arg = BASE_URL \o lastOp.code
    /\ ~DictHas(Forward, lastOp.code)

\* C7: on a backing file that exists and does not hold the expected content
\* (unparseable, or parseable without the urls and reverse mappings), every
\* operation completes with a result or a reported error: none ends in an
\* uncaught exception.
C7_NoFatalError == lastOp.ret # Raised

\* C8: while the backing file is corrupt, every command leaves it exactly as
\* it is, except a shorten that saves: after that, the file holds the one
\* entry of the store that was built from empty.
C8_CorruptFileUntouched ==
    [][ file.kind = "corrupt" =>
          IF IsShortened(lastOp')
          THEN file' = JsonFile(
                  [ EmptyDb EXCEPT
                      !.urls = << <<lastOp'.code, lastOp'.url>> >>,
                      !.reverse = << <<lastOp'.url, lastOp'.code>> >> ])
          ELSE file' = file /\ ~lastOp'.wrote ]_vars

\* a shorten that reported the corruption and then saved a one-entry store
C8_Witness ==
    /\ IsShortened(lastOp)
    /\ lastOp.diag
    /\ file.kind = "json"
    /\ Len(Forward) = 1

\* C9: for every entry (c, u) of the store, expand given c and expand given
\* BASE_URL ++ c both return u, and delete given either form removes the
\* entry.  Stated for the entries whose code is not empty.
C9_BareCodeOrShortUrl ==
    [][ \A i \in 1..Len(Forward) :
          LET c == Forward[i][1]
              u == Forward[i][2]
          IN  ( c # << >> /\ lastOp'.arg \in { c, BASE_URL \o c } ) =>
                /\ lastOp'.op = "expand" => lastOp'.ret = Str(u)
                /\ lastOp'.op = "delete" =>
                      ( lastOp'.ret = True /\ ~DictHas(ForwardAfter, c) ) ]_vars

\* C10: a shorten that inserts adds exactly one entry, at the end of urls,
\* under a code that was not a key of urls; and no command changes the URL of
\* a code that stays in urls.
C10_CreateAddsOneFreshEntry ==
    [][ /\ IsShortened(lastOp') =>
              /\ ~DictHas(Forward, lastOp'.code)
              /\ ForwardAfter = Append(Forward, <<lastOp'.code, lastOp'.url>>)
        /\ \A c \in DictKeys(Forward) \cap DictKeys(ForwardAfter) :
              DictGet(ForwardAfter, c) = DictGet(Forward, c) ]_vars

\* a shorten that added a second entry to the store
C10_Witness ==
    /\ IsShortened(lastOp)
    /\ Len(Forward) = 2
    /\ Forward[2] = <<lastOp.code, lastOp.url>>

\* C11: on a store, delete returns True exactly when the extracted code is
\* a key of urls.  Then the saved file lacks that code and its URL, and holds
\* every other entry of both maps as before, in the same order.  Otherwise
\* delete reports NotFound, returns False and leaves the file as it was.
C11_RemoveExactlyThatEntry ==
    [][ ( lastOp'.op = "delete" /\ Store.hasUrls ) =>
          LET c == parse_short_code(lastOp'.arg)
          IN  IF c \in DictKeys(Forward)
              THEN LET i == CHOOSE i \in 1..Len(Forward) : Forward[i][1] = c
                       u == Forward[i][2]
                       j == CHOOSE j \in 1..Len(Reverse) : Reverse[j][1] = u
                   IN  /\ lastOp'.ret = True
                       /\ lastOp'.wrote
                       /\ file'.kind = "json"
                       /\ ForwardAfter =
                            SubSeq(Forward, 1, i - 1)
                                \o SubSeq(Forward, i + 1, Len(Forward))
                       /\ ReverseAfter =
                            SubSeq(Reverse, 1, j - 1)
                                \o SubSeq(Reverse, j + 1, Len(Reverse))
              ELSE /\ lastOp'.ret = False
                   /\ lastOp'.msg = "NotFound"
                   /\ ~lastOp'.wrote
                   /\ file' = file ]_vars

\* a delete that removed the first of two entries and kept the second
C11_Witness ==
    /\ lastOp.op = "delete"
    /\ lastOp.ret = True
    /\ Len(Forward) = 1
    /\ Len(Reverse) = 1
    /\ Forward[1][1] # lastOp.code
    /\ lastOp.arg = lastOp.code

\* C12 as claimed: list shows exactly the entries of urls, in their order:
\* each row is the short URL of the entry's code and the entry's URL.
C12_ListShowsEntries ==
    ( lastOp.op = "list" /\ Store.hasUrls ) =>
        lastOp.rows = [ i \in 1..Len(Forward) |->
                          << BASE_URL \o Forward[i][1], Forward[i][2] >> ]

\* C12 as amended: list shows one row per entry of urls, in the order of
\* urls, with the URL cut to 45 characters and "..." when it is longer than
\* 48; an empty or absent store gives no row and no error.  And urls is in
\* insertion order: across every step the entries that stay keep their
\* order, and a shorten that inserts puts its entry last.
C12_ListInInsertionOrder ==
    [][ /\ ( lastOp'.op = "list" /\ Store.hasUrls ) =>
              /\ lastOp'.ret = None
              /\ file' = file
              /\ Len(lastOp'.rows) = Len(Forward)
              /\ \A i \in 1..Len(Forward) :
                    LET u == Forward[i][2]
                    IN  /\ lastOp'.rows[i][1] = BASE_URL \o Forward[i][1]
                        /\ Len(u) <= 48 => lastOp'.rows[i][2] = u
                        /\ Len(u) > 48 =>
                              lastOp'.rows[i][2] =
                                  SubSeq(u, 1, 45) \o << ".", ".", "." >>
              /\ (Forward = << >>) <=> (lastOp'.msg = "NoURLs")
        /\ SelectSeq(ForwardAfter, LAMBDA e : e \in { Forward[i] : i \in 1..Len(Forward) })
             = SelectSeq(Forward, LAMBDA e : e \in { ForwardAfter[i] : i \in 1..Len(ForwardAfter) })
        /\ IsShortened(lastOp') =>
              ForwardAfter[Len(ForwardAfter)] = <<lastOp'.code, lastOp'.url>>
      ]_vars

\* a list of two entries, one of them shown cut
C12_Witness ==
    /\ lastOp.op = "list"
    /\ Len(lastOp.rows) = 2
    /\ lastOp.rows[1][2] = Forward[1][2]
    /\ lastOp.rows[2][2] # Forward[2][2]

\* C13: a shorten call in its retry loop (valid URL not in reverse, no custom
\* code) returns a short URL in the end whenever some code of the requested
\* length is not a key of the urls it loaded; the code it leaves the loop
\* with is never such a key; and when every code of that length is a key,
\* the call stays in the loop for ever.
C13_RetryLoopTermination ==
    /\ \A p \in Procs :
          ( procs[p].pc = "loop" /\ FreeCodes(p) # {} )
              ~> ( /\ procs[p].pc = "done"
                   /\ procs[p].msg = "Shortened"
                   /\ procs[p].ret = Str(BASE_URL \o procs[p].code)
                   /\ DictHas(procs[p].db.urls, procs[p].code)
                   /\ DictGet(procs[p].db.urls, procs[p].code) = procs[p].url )
    /\ [] ( \A p \in Procs :
              procs[p].pc = "save" /\ ~Truthy(procs[p].custom)
                  => ~DictHas(procs[p].db.urls, procs[p].code) )
    /\ [][ \A p \in Procs :
              ( procs[p].pc = "loop" /\ FreeCodes(p) = {} )
                  => ( procs'[p].pc = "loop" /\ FreeCodes(p)' = {} ) ]_vars

\* one process went through the loop with length 0 and stored the empty
\* code; the other, started afterwards with length 0, is in the loop with no
\* code left to draw
C13_Witness ==
    \E p, q \in Procs :
        /\ procs[p].pc = "done"
        /\ procs[p].msg = "Shortened"
        /\ ~Truthy(procs[p].custom)
        /\ procs[p].length = 0
        /\ procs[q].pc = "loop"
        /\ procs[q].length = 0
        /\ DictHas(procs[q].db.urls, << >>)
        /\ FreeCodes(q) = {}

\* C14: on a store, shorten of a valid URL that is not a key of reverse, with
\* a custom code given by the caller that is not a key of urls, stores the
\* URL under exactly that code in both maps and returns BASE_URL ++ code.
C14_CustomCodeVerbatim ==
    [][ ( /\ lastOp'.op = "shorten"
          /\ lastOp'.url \in ValidUrls
          /\ Store.hasUrls
          /\ Store.hasReverse
          /\ ~DictHas(Reverse, lastOp'.url)
          /\ lastOp'.custom.given
          /\ ~DictHas(Forward, lastOp'.custom.val) )
        => /\ lastOp'.code = lastOp'.custom.val
           /\ lastOp'.ret = Str(BASE_URL \o lastOp'.custom.val)
           /\ DictHas(ForwardAfter, lastOp'.custom.val)
           /\ DictGet(ForwardAfter, lastOp'.custom.val) = lastOp'.url
           /\ DictHas(ReverseAfter, lastOp'.url)
           /\ DictGet(ReverseAfter, lastOp'.url) = lastOp'.custom.val ]_vars

\* C15: a code that shorten inserts without a custom code has exactly length
\* characters, all of the 62-symbol alphabet, when length is positive, and
\* is the empty string when length <= 0.
C15_GeneratedCodeLength ==
    ( IsShortened(lastOp) /\ ~Truthy(lastOp.custom) ) =>
        /\ Len(lastOp.code) = IF lastOp.length > 0 THEN lastOp.length ELSE 0
        /\ \A i \in 1..Len(lastOp.code) : lastOp.code[i] \in chars
        /\ DictHas(Forward, lastOp.code)
        /\ Cardinality(chars) = 62

\* a generated code of positive length inserted next to the empty code that
\* an earlier call with length <= 0 stored
C15_Witness ==
    /\ IsShortened(lastOp)
    /\ lastOp.custom = NoCustom
    /\ lastOp.length > 0
    /\ Len(lastOp.code) = lastOp.length
    /\ Len(Forward) = 2
    /\ Forward[1][1] = << >>

\* C16: with two shorten processes on one file, the file is always the whole
\* store of one process that saved: a save replaces the file by the saver's
\* in-memory store and merges nothing.  So when both loaded before either
\* saved, the file ends with one of the two entries.
C16_FileIsOneSaversStore ==
    ( \E p \in Procs : procs[p].msg = "Shortened" ) =>
        \E p \in Procs :
            /\ procs[p].msg = "Shortened"
            /\ file = JsonFile(procs[p].db)

\* both processes returned a short URL, for different URLs, the file holds
\* one entry, and the short URL one of them returned does not resolve
C16_Witness ==
    \E p, q \in Procs :
        /\ p # q
        /\ procs[p].msg = "Shortened"
        /\ procs[q].msg = "Shortened"
        /\ procs[p].url # procs[q].url
        /\ Len(Forward) = 1
        /\ Forward[1] = <<procs[p].code, procs[p].url>>
        /\ procs[q].code # procs[p].code
        /\ expand_url(file, parse_short_code(procs[q].ret.val)).msg = "NotFound"

\* C17: expand and list leave the backing file exactly as it is, absent,
\* empty, corrupt or valid, and so does a shorten that answers with an
\* existing code; the file changes only by a write, and only a shorten that
\* inserts and a delete that removes write.
C17_OnlyMutationsWrite ==
    [][ /\ ( \/ lastOp'.op \in { "expand", "list" }
             \/ lastOp'.msg = "AlreadyShortened" )
              => ( file' = file /\ ~lastOp'.wrote )
        /\ file' # file => lastOp'.wrote
        /\ lastOp'.wrote =>
              \/ IsShortened(lastOp')
              \/ ( lastOp'.op = "delete" /\ lastOp'.ret = True ) ]_vars

\* an expand that found nothing on an absent file, which is still absent
C17_Witness ==
    /\ lastOp.op = "expand"
    /\ lastOp.msg = "NotFound"
    /\ file.kind = "absent"

====
